---- MODULE Spec2Model ----
(***************************************************************************)
(* Model of btc-runtime's BytesReader (binary decoder with one mutable     *)
(* cursor), encodePointer, and AddressMemoryMap (single-level store over   *)
(* host storage).                                                          *)
(*                                                                         *)
(* Conventions.                                                            *)
(*  - A byte buffer is a sequence of integers 0..255; the 0-based byte     *)
(*    offset p of the source is element p+1 of the sequence.               *)
(*  - Every read is an operator from (buffer, offset) to a record          *)
(*    [ok, off, val]: ok = FALSE when the read throws, off is the value of *)
(*    currentOffset when the read returns or throws, val the decoded value.*)
(*  - The reader's DataView is built over bytes.buffer (constructor), so   *)
(*    the buffer of the model is that whole ArrayBuffer.                   *)
(*  - DataView getters are AssemblyScript's: they throw a RangeError when  *)
(*    byteOffset < 0 or byteOffset + width > byteLength.                   *)
(*  - u16/u32 values are integers.  Values wider than 31 bits (u64, i64,   *)
(*    f32 bit pattern, u128, i128, u256, i256) are base-256 numerals       *)
(*    written most significant digit first (for the signed types: the      *)
(*    two's-complement bit pattern).                                       *)
(***************************************************************************)
EXTENDS Integers, Sequences, FiniteSets, TLC

\* ---------------------------------------------------------------- bounds
\* Longest raw input buffer.
MaxLen == 5
\* Largest length argument given to readBytes / readString.
MaxCount == 5
\* Largest number of pairs in an address->u256 map input.
MaxPairs == 3
\* Number of keys used on each AddressMemoryMap.
NumKeys == 2
\* Longest key given to encodePointer.
MaxKeyLen == 3
\* Largest number of aggregators built while a MultiAddressMemoryMap is used.
MaxMergers == 2
\* A count that a one-byte loop counter cannot reach.
LongCount == 300
\* Width of an Address.  types/Address is not part of the available source;
\* the model is parametric in it.
ADDRESS_BYTE_LENGTH == 2

\* ------------------------------------------------------ program constants
\* readMultiBytesAddressMap caps.
MaxContracts == 8
MaxCalls == 10

VARIABLES
    buffer,         \* BytesReader.buffer: the bytes under the DataView
    currentOffset,  \* BytesReader.currentOffset
    last,           \* the last reader operation: name, arguments, offset before, outcome
    clean,          \* TRUE while every operation so far was a read that returned
    wire,           \* what the input buffer was encoded from (never changes)
    storage,        \* host storage: 32-byte pointer -> value
    defaultValue,   \* table id -> AddressMemoryMap.defaultValue
    call,           \* the last AddressMemoryMap operation and what it returned
    everSet,        \* <<table id, key>> pairs on which set or delete was called
    entries,        \* MultiAddressMemoryMap: the Map's entries, key -> aggregator object
    mergers,        \* the Uint8ArrayMerger objects created so far, by reference
    loop            \* a count-prefixed decode in progress: its counters and position

vars == <<buffer, currentOffset, last, clean, wire, storage, defaultValue, call, everSet,
          entries, mergers, loop>>
readerVars == <<buffer, currentOffset, last, clean, wire>>
storeVars == <<storage, defaultValue, call, everSet>>
multiVars == <<entries, mergers>>

\* -------------------------------------------------------- initial records
\* last, call and wire before any operation.
NoOp == [op |-> "new", n |-> 0, flag |-> FALSE, before |-> 0, ok |-> TRUE, val |-> <<>>]
NoCall == [op |-> "new", table |-> 0, key |-> <<>>, value |-> 0, ret |-> 0]
NoWire == [kind |-> "raw", addrs |-> <<>>, rs |-> <<>>, blen |-> 0, cut |-> 0]
\* A Uint8ArrayMerger nobody has built.
NoMerger == [key |-> <<>>, pointer |-> 0, default |-> 0, slots |-> <<>>]
\* No count-prefixed decode has been entered.
NoLoop == [op |-> "none", pc |-> "idle", i |-> 0, length |-> 0, j |-> 0, responseSize |-> 0,
           result |-> {}]

\* ------------------------------------------------------------- outcomes
Ok(o, v) == [ok |-> TRUE, val |-> v, off |-> o]
Thrown(o) == [ok |-> FALSE, val |-> <<>>, off |-> o]

\* ------------------------------------------------------------- DataView
byteLength(buf) == Len(buf)

\* The range check of DataView.getUintN / getIntN / getFloat32.
InRange(buf, byteOffset, width) ==
    byteOffset >= 0 /\ byteOffset + width <= byteLength(buf)

\* The bytes [byteOffset, byteOffset + width) in buffer order.
Slice(buf, byteOffset, width) == SubSeq(buf, byteOffset + 1, byteOffset + width)

RECURSIVE Reverse(_)
Reverse(s) == IF s = <<>> THEN <<>> ELSE Append(Reverse(Tail(s)), Head(s))

\* Integer value of a byte sequence, first byte least significant.
RECURSIVE ValueLE(_)
ValueLE(s) == IF s = <<>> THEN 0 ELSE Head(s) + 256 * ValueLE(Tail(s))

getUint8(buf, byteOffset) == buf[byteOffset + 1]
getUint16(buf, byteOffset) == ValueLE(Slice(buf, byteOffset, 2))
getUint32(buf, byteOffset, le) ==
    IF le THEN ValueLE(Slice(buf, byteOffset, 4))
    ELSE ValueLE(Reverse(Slice(buf, byteOffset, 4)))
\* getUint64 / getInt64 / getFloat32, little endian: the numeral of the value.
getWideLE(buf, byteOffset, width) == Reverse(Slice(buf, byteOffset, width))

\* ---------------------------------------------------------- BytesReader
\* verifyEnd(size): TRUE when it returns, FALSE when it throws.
\* verifyEnd that compares the end of the read, size, with the length
verifyEnd_ChecksSize(buf, off, size) == ~(size > byteLength(buf))

verifyEnd(buf, off, size) == ~(off > byteLength(buf))

\* readU8 if getUint8 returned 0 past the end instead of throwing, so that
\* verifyEnd were the only bound check.
readU8_GuardedByVerifyEndOnly(buf, off) ==
    IF ~verifyEnd(buf, off, off + 1) THEN Thrown(off)
    ELSE IF InRange(buf, off, 1) THEN Ok(off + 1, getUint8(buf, off))
    ELSE Ok(off + 1, 0)

readU8(buf, off) ==
    IF ~verifyEnd(buf, off, off + 1) THEN Thrown(off)
    \* the argument currentOffset++ is evaluated before getUint8 checks it
    ELSE IF InRange(buf, off, 1) THEN Ok(off + 1, getUint8(buf, off))
    ELSE Thrown(off + 1)

readU16(buf, off) ==
    IF ~verifyEnd(buf, off, off + 2) THEN Thrown(off)
    ELSE IF InRange(buf, off, 2) THEN Ok(off + 2, getUint16(buf, off))
    ELSE Thrown(off)

\* readU32 with readU16's increment (currentOffset += 2).
readU32_AdvancesByTwo(buf, off, le) ==
    IF ~verifyEnd(buf, off, off + 4) THEN Thrown(off)
    ELSE IF InRange(buf, off, 4) THEN Ok(off + 2, getUint32(buf, off, le))
    ELSE Thrown(off)

readU32(buf, off, le) ==
    IF ~verifyEnd(buf, off, off + 4) THEN Thrown(off)
    ELSE IF InRange(buf, off, 4) THEN Ok(off + 4, getUint32(buf, off, le))
    ELSE Thrown(off)

readU64(buf, off) ==
    IF ~verifyEnd(buf, off, off + 8) THEN Thrown(off)
    ELSE IF InRange(buf, off, 8) THEN Ok(off + 8, getWideLE(buf, off, 8))
    ELSE Thrown(off)

readI64(buf, off) ==
    IF ~verifyEnd(buf, off, off + 8) THEN Thrown(off)
    ELSE IF InRange(buf, off, 8) THEN Ok(off + 8, getWideLE(buf, off, 8))
    ELSE Thrown(off)

\* for (let i = lo; i < hi; i++) Body: the loop's variables st (cursor
\* offset, value built so far) pass through the iterations in order; a throw
\* or a break (st.done) ends the loop.  The range is split in halves only to
\* keep the evaluation shallow; the iterations run in the order lo .. hi-1.
RECURSIVE ForLoop(_, _, _, _)
ForLoop(Body(_, _), st, lo, hi) ==
    IF ~(lo < hi) \/ st.done THEN st
    ELSE IF hi - lo = 1 THEN Body(st, lo)
    ELSE LET mid == lo + (hi - lo) \div 2 IN
         ForLoop(Body, ForLoop(Body, st, lo, mid), mid, hi)

Enter(o, v) == [ok |-> TRUE, val |-> v, off |-> o, done |-> FALSE]
Continue(o, v) == [ok |-> TRUE, val |-> v, off |-> o, done |-> FALSE]
Break(o, v) == [ok |-> TRUE, val |-> v, off |-> o, done |-> TRUE]
Throw(o) == [ok |-> FALSE, val |-> <<>>, off |-> o, done |-> TRUE]
Leave(st) == IF st.ok THEN Ok(st.off, st.val) ELSE Thrown(st.off)

readBytesBE(buf, off, count) ==
    LET Body(st, i) ==
            LET r == readU8(buf, st.off) IN
            IF ~r.ok THEN Throw(r.off) ELSE Continue(r.off, Append(st.val, r.val))
    IN Leave(ForLoop(Body, Enter(off, <<>>), 0, count))

\* u128 / i128 / u256 / i256 .fromBytesBE: the first byte is the most
\* significant digit of the numeral.
fromBytesBE(bytes) == bytes

readU128(buf, off) ==
    IF ~verifyEnd(buf, off, off + 16) THEN Thrown(off)
    ELSE LET r == readBytesBE(buf, off, 16) IN
         IF r.ok THEN Ok(r.off, fromBytesBE(r.val)) ELSE r

readI128(buf, off) ==
    IF ~verifyEnd(buf, off, off + 16) THEN Thrown(off)
    ELSE LET r == readBytesBE(buf, off, 16) IN
         IF r.ok THEN Ok(r.off, fromBytesBE(r.val)) ELSE r

readU256(buf, off) ==
    IF ~verifyEnd(buf, off, off + 32) THEN Thrown(off)
    ELSE LET r == readBytesBE(buf, off, 32) IN
         IF r.ok THEN Ok(r.off, fromBytesBE(r.val)) ELSE r

readI256(buf, off) ==
    IF ~verifyEnd(buf, off, off + 32) THEN Thrown(off)
    ELSE LET r == readBytesBE(buf, off, 32) IN
         IF r.ok THEN Ok(r.off, fromBytesBE(r.val)) ELSE r

\* bytes holds the elements written so far; the zero-filled tail of the
\* preallocated array is never observable (it is cut off by slice(0, i),
\* overwritten before the return, or lost on a throw).
readBytes(buf, off, length, zeroStop) ==
    LET Body(st, i) ==
            LET byte == readU8(buf, st.off) IN
            IF ~byte.ok THEN Throw(byte.off)
            ELSE IF zeroStop /\ byte.val = 0 THEN Break(byte.off, SubSeq(st.val, 1, i))
            ELSE Continue(byte.off, Append(st.val, byte.val))
    IN Leave(ForLoop(Body, Enter(off, <<>>), 0, length))

readBytesWithLength(buf, off) ==
    LET length == readU32(buf, off, TRUE) IN
    IF ~length.ok THEN length ELSE readBytes(buf, length.off, length.val, FALSE)

\* String.UTF8.decode of bytes below 0x80: one character code per byte.
UTF8decode(bytes) == bytes

readString(buf, off, length) ==
    LET bytes == readBytes(buf, off, length, TRUE) IN
    IF bytes.ok THEN Ok(bytes.off, UTF8decode(bytes.val)) ELSE bytes

\* readSelector through readU32's default byte order
readSelector_LittleEndian(buf, off) == readU32(buf, off, TRUE)

readSelector(buf, off) == readU32(buf, off, FALSE)

readBoolean(buf, off) ==
    LET r == readU8(buf, off) IN
    IF r.ok THEN Ok(r.off, r.val # 0) ELSE r

\* readFloat if getFloat32 read zeros past the end instead of throwing.
readFloat_Unchecked(buf, off) ==
    IF off < 0 THEN Thrown(off)
    ELSE Ok(off + 4, getWideLE(buf \o <<0, 0, 0, 0>>, off, 4))

readFloat(buf, off) ==
    IF InRange(buf, off, 4) THEN Ok(off + 4, getWideLE(buf, off, 4))
    ELSE Thrown(off)

readAddress(buf, off) ==
    LET Body(st, i) ==
            LET r == readU8(buf, st.off) IN
            IF ~r.ok THEN Throw(r.off) ELSE Continue(r.off, Append(st.val, r.val))
    IN Leave(ForLoop(Body, Enter(off, <<>>), 0, ADDRESS_BYTE_LENGTH))

\* AddressMap (generic/AddressMap): a map keyed by the address bytes.
EmptyMap == <<>>
AddressMapHas(map, address) == address \in DOMAIN map
AddressMapSet(map, address, value) ==
    [a \in DOMAIN map \cup {address} |-> IF a = address THEN value ELSE map[a]]

\* readAddressValueTuple without the result.has(address) check.
readAddressValueTuple_Overwrites(buf, off) ==
    LET length == readU16(buf, off)
        Body(st, i) ==
            LET address == readAddress(buf, st.off)
                value == readU256(buf, address.off)
            IN IF ~address.ok THEN Throw(address.off)
               ELSE IF ~value.ok THEN Throw(value.off)
               ELSE Continue(value.off, AddressMapSet(st.val, address.val, value.val))
    IN IF ~length.ok THEN length
       ELSE Leave(ForLoop(Body, Enter(length.off, EmptyMap), 0, length.val))

readAddressValueTuple(buf, off) ==
    LET length == readU16(buf, off)
        Body(st, i) ==
            LET address == readAddress(buf, st.off)
                value == readU256(buf, address.off)
            IN IF ~address.ok THEN Throw(address.off)
               ELSE IF ~value.ok THEN Throw(value.off)
               ELSE IF AddressMapHas(st.val, address.val) THEN Throw(value.off)
               ELSE Continue(value.off, AddressMapSet(st.val, address.val, value.val))
    IN IF ~length.ok THEN length
       ELSE Leave(ForLoop(Body, Enter(length.off, EmptyMap), 0, length.val))

\* readMultiBytesAddressMap without the responseSize > 10 check.
readMultiBytesAddressMap_UncappedCalls(buf, off) ==
    LET size == readU8(buf, off)
        Inner(st, j) ==
            LET response == readBytesWithLength(buf, st.off) IN
            IF ~response.ok THEN Throw(response.off)
            ELSE Continue(response.off, Append(st.val, response.val))
        Body(st, i) ==
            LET address == readAddress(buf, st.off)
                responseSize == readU8(buf, address.off)
                calls == ForLoop(Inner, Enter(responseSize.off, <<>>), 0, responseSize.val)
            IN IF ~address.ok THEN Throw(address.off)
               ELSE IF ~responseSize.ok THEN Throw(responseSize.off)
               ELSE IF ~calls.ok THEN Throw(calls.off)
               ELSE Continue(calls.off, AddressMapSet(st.val, address.val, calls.val))
    IN IF ~size.ok THEN size
       ELSE IF size.val > MaxContracts THEN Thrown(size.off)
       ELSE Leave(ForLoop(Body, Enter(size.off, EmptyMap), 0, size.val))

\* readMultiBytesAddressMap with the duplicate check of readAddressValueTuple
readMultiBytesAddressMap_RejectsRepeats(buf, off) ==
    LET size == readU8(buf, off)
        Inner(st, j) ==
            LET response == readBytesWithLength(buf, st.off) IN
            IF ~response.ok THEN Throw(response.off)
            ELSE Continue(response.off, Append(st.val, response.val))
        Body(st, i) ==
            LET address == readAddress(buf, st.off)
                responseSize == readU8(buf, address.off)
                calls == ForLoop(Inner, Enter(responseSize.off, <<>>), 0, responseSize.val)
            IN IF ~address.ok THEN Throw(address.off)
               ELSE IF ~responseSize.ok THEN Throw(responseSize.off)
               ELSE IF responseSize.val > MaxCalls THEN Throw(responseSize.off)
               ELSE IF ~calls.ok THEN Throw(calls.off)
               ELSE IF AddressMapHas(st.val, address.val) THEN Throw(calls.off)
               ELSE Continue(calls.off, AddressMapSet(st.val, address.val, calls.val))
    IN IF ~size.ok THEN size
       ELSE IF size.val > MaxContracts THEN Thrown(size.off)
       ELSE Leave(ForLoop(Body, Enter(size.off, EmptyMap), 0, size.val))

readMultiBytesAddressMap(buf, off) ==
    LET size == readU8(buf, off)
        Inner(st, j) ==
            LET response == readBytesWithLength(buf, st.off) IN
            IF ~response.ok THEN Throw(response.off)
            ELSE Continue(response.off, Append(st.val, response.val))
        Body(st, i) ==
            LET address == readAddress(buf, st.off)
                responseSize == readU8(buf, address.off)
                calls == ForLoop(Inner, Enter(responseSize.off, <<>>), 0, responseSize.val)
            IN IF ~address.ok THEN Throw(address.off)
               ELSE IF ~responseSize.ok THEN Throw(responseSize.off)
               ELSE IF responseSize.val > MaxCalls THEN Throw(responseSize.off)
               ELSE IF ~calls.ok THEN Throw(calls.off)
               ELSE Continue(calls.off, AddressMapSet(st.val, address.val, calls.val))
    IN IF ~size.ok THEN size
       ELSE IF size.val > MaxContracts THEN Thrown(size.off)
       ELSE Leave(ForLoop(Body, Enter(size.off, EmptyMap), 0, size.val))

\* ------------------------------------------------------------ wire format
\* Encoders of the wire format the reader decodes (little-endian u16/u32
\* prefixes, big-endian u256).  They only build the input buffers.
U16LE(n) == <<n % 256, n \div 256>>
U32LE(n) == <<n % 256, (n \div 256) % 256, (n \div 65536) % 256, n \div 16777216>>
Addr(id) == [j \in 1..ADDRESS_BYTE_LENGTH |-> IF j = ADDRESS_BYTE_LENGTH THEN id ELSE 7]
U256BE(v) == [j \in 1..32 |-> IF j = 32 THEN v ELSE 0]
Blob(id, blen) == [j \in 1..blen |-> id]

RECURSIVE Repeat(_, _)
Repeat(s, n) == IF n = 0 THEN <<>> ELSE s \o Repeat(s, n - 1)

\* address->u256 map: u16 count, then (address, u256) pairs; pair i carries value i
RECURSIVE EncodePairs(_, _)
EncodePairs(addrs, i) ==
    IF i > Len(addrs) THEN <<>>
    ELSE Addr(addrs[i]) \o U256BE(i) \o EncodePairs(addrs, i + 1)

EncodeTuple(addrs) == U16LE(Len(addrs)) \o EncodePairs(addrs, 1)

\* call batch: u8 count, then per address: address, u8 count, length-prefixed
\* blobs; the blobs of entry i are filled with the byte i
RECURSIVE EncodeEntries(_, _, _, _)
EncodeEntries(addrs, rs, blen, i) ==
    IF i > Len(addrs) THEN <<>>
    ELSE Addr(addrs[i]) \o <<rs[i]>> \o Repeat(U32LE(blen) \o Blob(i, blen), rs[i])
         \o EncodeEntries(addrs, rs, blen, i + 1)

EncodeBatch(addrs, rs, blen) == <<Len(addrs)>> \o EncodeEntries(addrs, rs, blen, 1)

CutLast(s, cut) == SubSeq(s, 1, Len(s) - cut)

\* ------------------------------------------------------------------ inputs
\* every short buffer over small bytes, the two buffers of the spec's
\* scenarios, and longer buffers on which the wide reads succeed
Pattern(n) == [i \in 1..n |-> (i * 7) % 64]
RawBytes == {0, 1}

RawBuffers ==
    UNION {[1..n -> RawBytes] : n \in 0..MaxLen}
        \cup {<<5, 42, 0, 0, 0>>, <<1, 2, 0, 4, 5>>}
        \cup {Pattern(n) : n \in {8, 16, 33}}

RawInputs ==
    {[kind |-> "raw", addrs |-> <<>>, rs |-> <<>>, blen |-> 0, cut |-> 0, buf |-> b] :
        b \in RawBuffers}

\* address->u256 maps over two addresses, whole or with the last byte cut
AddrIds == {1, 2}
TupleInputs ==
    {[kind |-> "tuple", addrs |-> a, rs |-> <<>>, blen |-> 0, cut |-> c,
      buf |-> CutLast(EncodeTuple(a), c)] :
        a \in UNION {[1..n -> AddrIds] : n \in 0..MaxPairs}, c \in 0..1}

Distinct(n) == [i \in 1..n |-> i]
LastRepeatsFirst(n) == [i \in 1..n |-> IF i = n THEN 1 ELSE i]
Const(n, r) == [i \in 1..n |-> r]
LastIs(n, r, rl) == [i \in 1..n |-> IF i = n THEN rl ELSE r]

\* per-address blob counts of the call batches
SmallShapes ==
    {<<>>, <<0>>, <<1>>, <<1, 1>>, <<2, 1>>, <<MaxCalls>>, <<MaxCalls + 1>>,
     <<1, MaxCalls + 1>>, <<MaxCalls + 1, 1>>}
WideShapes ==
    {Const(MaxContracts, 1), Const(MaxContracts + 1, 1),
     LastIs(MaxContracts, 1, MaxCalls + 1)}

BatchInput(a, rs, bl, c) ==
    [kind |-> "batch", addrs |-> a, rs |-> rs, blen |-> bl, cut |-> c,
     buf |-> CutLast(EncodeBatch(a, rs, bl), c)]

BatchInputs ==
    {BatchInput(Distinct(Len(rs)), rs, bl, c) : rs \in SmallShapes, bl \in 0..1, c \in 0..1}
    \cup {BatchInput(LastRepeatsFirst(Len(rs)), rs, bl, 0) :
            rs \in {<<1, 1>>, <<2, 1>>}, bl \in 0..1}
    \cup {BatchInput(Distinct(Len(rs)), rs, 1, 0) : rs \in WideShapes}
    \cup {BatchInput(Distinct(MaxContracts), Const(MaxContracts, MaxCalls), 0, 0)}

StructuredInputs == TupleInputs \cup BatchInputs

Lengths == 0..MaxCount

\* --------------------------------------------------------- reader actions
\* constructor(bytes): a DataView over bytes.buffer, currentOffset = 0
Construct(inputs) ==
    /\ \E in \in inputs :
         /\ buffer = in.buf
         /\ wire = [NoWire EXCEPT !.kind = in.kind, !.addrs = in.addrs, !.rs = in.rs,
                                   !.blen = in.blen, !.cut = in.cut]
    /\ currentOffset = 0
    /\ last = NoOp
    /\ clean = TRUE
    /\ storage = <<>>
    /\ defaultValue = <<>>
    /\ call = NoCall
    /\ everSet = {}
    /\ entries = <<>>
    /\ mergers = <<>>
    /\ loop = NoLoop

\* One call of a read: the cursor ends where the read left it, and the call
\* is remembered with the offset it started from.
Read(op, n, flag, r) ==
    /\ currentOffset' = r.off
    /\ last' = [op |-> op, n |-> n, flag |-> flag, before |-> currentOffset,
                ok |-> r.ok, val |-> r.val]
    /\ clean' = (clean /\ r.ok)
    /\ UNCHANGED <<buffer, wire, storage, defaultValue, call, everSet, entries, mergers, loop>>

ReadU8 == Read("readU8", 0, FALSE, readU8(buffer, currentOffset))
ReadU16 == Read("readU16", 0, FALSE, readU16(buffer, currentOffset))
ReadU32 == \E le \in BOOLEAN : Read("readU32", 0, le, readU32(buffer, currentOffset, le))
ReadU64 == Read("readU64", 0, FALSE, readU64(buffer, currentOffset))
ReadI64 == Read("readI64", 0, FALSE, readI64(buffer, currentOffset))
ReadU128 == Read("readU128", 0, FALSE, readU128(buffer, currentOffset))
ReadI128 == Read("readI128", 0, FALSE, readI128(buffer, currentOffset))
ReadU256 == Read("readU256", 0, FALSE, readU256(buffer, currentOffset))
ReadI256 == Read("readI256", 0, FALSE, readI256(buffer, currentOffset))
ReadBytes ==
    \E length \in Lengths, zeroStop \in BOOLEAN :
        Read("readBytes", length, zeroStop, readBytes(buffer, currentOffset, length, zeroStop))
ReadBytesWithLength ==
    Read("readBytesWithLength", 0, FALSE, readBytesWithLength(buffer, currentOffset))
ReadString ==
    \E length \in Lengths : Read("readString", length, FALSE, readString(buffer, currentOffset, length))
ReadSelector == Read("readSelector", 0, FALSE, readSelector(buffer, currentOffset))
ReadBoolean == Read("readBoolean", 0, FALSE, readBoolean(buffer, currentOffset))
ReadFloat == Read("readFloat", 0, FALSE, readFloat(buffer, currentOffset))
ReadAddress == Read("readAddress", 0, FALSE, readAddress(buffer, currentOffset))
ReadAddressValueTuple ==
    Read("readAddressValueTuple", 0, FALSE, readAddressValueTuple(buffer, currentOffset))
ReadMultiBytesAddressMap ==
    Read("readMultiBytesAddressMap", 0, FALSE, readMultiBytesAddressMap(buffer, currentOffset))

\* setOffset(offset), for offsets around both ends of the buffer and the
\* offset the last read started from (backtracking)
OffsetInputs == {-1, 0, 1, Len(buffer), Len(buffer) + 1, last.before}

\* setOffset that moves the cursor one byte past the offset given
SetOffset_OneTooFar ==
    \E offset \in OffsetInputs :
        /\ currentOffset' = offset + 1
        /\ last' = [op |-> "setOffset", n |-> offset, flag |-> FALSE,
                    before |-> currentOffset, ok |-> TRUE, val |-> <<>>]
        /\ clean' = FALSE
        /\ UNCHANGED <<buffer, wire, storage, defaultValue, call, everSet, entries, mergers, loop>>

SetOffset ==
    \E offset \in OffsetInputs :
        /\ currentOffset' = offset
        /\ last' = [op |-> "setOffset", n |-> offset, flag |-> FALSE,
                    before |-> currentOffset, ok |-> TRUE, val |-> <<>>]
        /\ clean' = FALSE
        /\ UNCHANGED <<buffer, wire, storage, defaultValue, call, everSet, entries, mergers, loop>>

\* verifyEnd(size), called from outside as the reads call it, for the end of
\* a read of 0, 1, 4 or 32 bytes
Sizes == {currentOffset + width : width \in {0, 1, 4, 32}}

VerifyEnd ==
    \E size \in Sizes :
        Read("verifyEnd", size, FALSE,
             IF verifyEnd(buffer, currentOffset, size) THEN Ok(currentOffset, <<>>)
             ELSE Thrown(currentOffset))

NextReader ==
    \/ VerifyEnd
    \/ ReadU8
    \/ ReadU16
    \/ ReadU32
    \/ ReadU64
    \/ ReadI64
    \/ ReadU128
    \/ ReadI128
    \/ ReadU256
    \/ ReadI256
    \/ ReadBytes
    \/ ReadBytesWithLength
    \/ ReadString
    \/ ReadSelector
    \/ ReadBoolean
    \/ ReadFloat
    \/ ReadAddress
    \/ ReadAddressValueTuple
    \/ ReadMultiBytesAddressMap
    \/ SetOffset

\* A reader over an arbitrary buffer, under every operation.
InitReader == Construct(RawInputs)
SpecReader == InitReader /\ [][NextReader]_vars

\* A reader over an encoded address->u256 map or call batch, under the two
\* decoders and repositioning.
InitDecode == Construct(StructuredInputs)
NextDecode ==
    \/ ReadAddressValueTuple
    \/ ReadMultiBytesAddressMap
    \/ SetOffset
SpecDecode == InitDecode /\ [][NextDecode]_vars

\* ------------------------------------------- count-prefixed loops, by step
\* The decoders that read a count and then loop, one iteration of the
\* outermost loop per step (readMultiBytesAddressMap: of its inner loop too).
LoopOps ==
    {"readBytesWithLength", "readTuple", "readAddressArray", "readAddressValueTuple",
     "readMultiBytesAddressMap", "readTransactionInputs", "readTransactionOutputs"}

\* Width in bits of the count read in front of the loop.
CountBits ==
    [readBytesWithLength |-> 32, readTuple |-> 32, readAddressArray |-> 16,
     readAddressValueTuple |-> 16, readMultiBytesAddressMap |-> 8,
     readTransactionInputs |-> 8, readTransactionOutputs |-> 8]

\* Counters one byte wide in the two u16-counted array decoders.
CounterBits_Narrowed ==
    [readBytesWithLength |-> 32, readTuple |-> 32, readAddressArray |-> 8,
     readAddressValueTuple |-> 8, readMultiBytesAddressMap |-> 8,
     readTransactionInputs |-> 16, readTransactionOutputs |-> 16]

\* Width in bits of the loop counter i as declared.
CounterBits ==
    [readBytesWithLength |-> 32, readTuple |-> 32, readAddressArray |-> 16,
     readAddressValueTuple |-> 16, readMultiBytesAddressMap |-> 8,
     readTransactionInputs |-> 16, readTransactionOutputs |-> 16]

\* i++ on a counter of the given width; counts of 2^31 and more are outside
\* the integers of TLC, so a 32-bit counter is never near its end here.
Increment(i, bits) == IF bits >= 31 THEN i + 1 ELSE (i + 1) % (2 ^ bits)

\* const length = this.readU8() / readU16() / readU32()
readCount(op, buf, off) ==
    IF CountBits[op] = 8 THEN readU8(buf, off)
    ELSE IF CountBits[op] = 16 THEN readU16(buf, off)
    ELSE readU32(buf, off, TRUE)

\* One pass through the loop body of op with the cursor at off; result is
\* the set of addresses the map built so far holds.
LoopBody(op, buf, off, result) ==
    CASE op = "readBytesWithLength" ->
            LET byte == readU8(buf, off) IN
            [ok |-> byte.ok, off |-> byte.off, result |-> result]
      [] op = "readTuple" ->
            LET r == readU256(buf, off) IN
            [ok |-> r.ok, off |-> r.off, result |-> result]
      [] op = "readAddressArray" ->
            LET r == readAddress(buf, off) IN
            [ok |-> r.ok, off |-> r.off, result |-> result]
      [] op = "readAddressValueTuple" ->
            LET address == readAddress(buf, off) IN
            IF ~address.ok THEN [ok |-> FALSE, off |-> address.off, result |-> result]
            ELSE LET value == readU256(buf, address.off) IN
                 IF ~value.ok THEN [ok |-> FALSE, off |-> value.off, result |-> result]
                 ELSE [ok |-> address.val \notin result, off |-> value.off,
                       result |-> result \cup {address.val}]
      [] op = "readTransactionInputs" ->
            LET txId == readBytes(buf, off, 32, FALSE) IN
            IF ~txId.ok THEN [ok |-> FALSE, off |-> txId.off, result |-> result]
            ELSE LET outputIndex == readU8(buf, txId.off) IN
                 IF ~outputIndex.ok
                 THEN [ok |-> FALSE, off |-> outputIndex.off, result |-> result]
                 ELSE LET scriptSig == readBytesWithLength(buf, outputIndex.off) IN
                      [ok |-> scriptSig.ok, off |-> scriptSig.off, result |-> result]
      [] op = "readTransactionOutputs" ->
            LET index == readU8(buf, off) IN
            IF ~index.ok THEN [ok |-> FALSE, off |-> index.off, result |-> result]
            ELSE LET scriptPubKey == readBytesWithLength(buf, index.off) IN
                 IF ~scriptPubKey.ok
                 THEN [ok |-> FALSE, off |-> scriptPubKey.off, result |-> result]
                 ELSE LET value == readU64(buf, scriptPubKey.off) IN
                      [ok |-> value.ok, off |-> value.off, result |-> result]

\* The decode ends by an exception with the cursor at off.
LoopThrows(off) ==
    /\ currentOffset' = off
    /\ loop' = [loop EXCEPT !.pc = "thrown"]

\* The call starts: the count is read, and the loop is entered with i = 0.
LoopEnter ==
    \E op \in LoopOps :
        /\ loop.pc = "idle"
        /\ wire.kind \in {"raw", op}
        /\ LET length == readCount(op, buffer, currentOffset) IN
           /\ currentOffset' = length.off
           /\ loop' = [NoLoop EXCEPT
                         !.op = op,
                         !.pc = IF ~length.ok THEN "thrown"
                                ELSE IF op = "readMultiBytesAddressMap"
                                        /\ length.val > MaxContracts THEN "thrown"
                                ELSE "for",
                         !.length = IF length.ok THEN length.val ELSE 0]
        /\ UNCHANGED <<buffer, last, clean, wire, storage, defaultValue, call, everSet,
                       entries, mergers>>

\* i < length holds: the body runs once, then i++
LoopIterate ==
    /\ loop.pc = "for"
    /\ loop.op # "readMultiBytesAddressMap"
    /\ loop.i < loop.length
    /\ LET r == LoopBody(loop.op, buffer, currentOffset, loop.result) IN
       IF r.ok
       THEN /\ currentOffset' = r.off
            /\ loop' = [loop EXCEPT !.i = Increment(loop.i, CounterBits[loop.op]),
                                    !.result = r.result]
       ELSE LoopThrows(r.off)
    /\ UNCHANGED <<buffer, last, clean, wire, storage, defaultValue, call, everSet,
                   entries, mergers>>

\* readMultiBytesAddressMap, i < size holds: the address and the number of
\* blobs are read and the inner loop is entered with j = 0
LoopCalls ==
    /\ loop.pc = "for"
    /\ loop.op = "readMultiBytesAddressMap"
    /\ loop.i < loop.length
    /\ LET address == readAddress(buffer, currentOffset)
           responseSize == readU8(buffer, address.off)
       IN IF ~address.ok THEN LoopThrows(address.off)
          ELSE IF ~responseSize.ok THEN LoopThrows(responseSize.off)
          ELSE IF responseSize.val > MaxCalls THEN LoopThrows(responseSize.off)
          ELSE /\ currentOffset' = responseSize.off
               /\ loop' = [loop EXCEPT !.pc = "calls", !.j = 0,
                                       !.responseSize = responseSize.val]
    /\ UNCHANGED <<buffer, last, clean, wire, storage, defaultValue, call, everSet,
                   entries, mergers>>

\* j < responseSize holds: one blob is read, then j++
LoopCall ==
    /\ loop.pc = "calls"
    /\ loop.j < loop.responseSize
    /\ LET response == readBytesWithLength(buffer, currentOffset) IN
       IF response.ok
       THEN /\ currentOffset' = response.off
            /\ loop' = [loop EXCEPT !.j = Increment(loop.j, 8)]
       ELSE LoopThrows(response.off)
    /\ UNCHANGED <<buffer, last, clean, wire, storage, defaultValue, call, everSet,
                   entries, mergers>>

\* j < responseSize fails: map.set(address, calls), then i++
LoopCallsDone ==
    /\ loop.pc = "calls"
    /\ ~(loop.j < loop.responseSize)
    /\ loop' = [loop EXCEPT !.pc = "for", !.i = Increment(loop.i, CounterBits[loop.op])]
    /\ UNCHANGED <<buffer, currentOffset, last, clean, wire, storage, defaultValue, call,
                   everSet, entries, mergers>>

\* i < length fails: the decode returns
LoopReturn ==
    /\ loop.pc = "for"
    /\ ~(loop.i < loop.length)
    /\ loop' = [loop EXCEPT !.pc = "returned"]
    /\ UNCHANGED <<buffer, currentOffset, last, clean, wire, storage, defaultValue, call,
                   everSet, entries, mergers>>

\* s written n times
Times(s, n) == [k \in 1..(n * Len(s)) |-> s[((k - 1) % Len(s)) + 1]]

\* one transaction input (txId, outputIndex, scriptSig of one byte) and one
\* transaction output (index, empty scriptPubKey, value)
WireInput == Blob(9, 32) \o <<0>> \o U32LE(1) \o <<5>>
WireOutput == <<1>> \o U32LE(0) \o Blob(0, 7) \o <<3>>

\* Inputs: for every decoder a count of 0, of a few, and the largest of its
\* width over a buffer that ends early; LongCount addresses, more than a
\* one-byte counter holds; maps with and without a repeated address; batches
\* within and beyond the caps.  A buffer is decoded by the decoder it is
\* written for; the buffers that are too short for any count to be followed
\* by an element are decoded by every decoder.
ShortBuffers == {<<>>, <<0>>, <<255>>, <<0, 0>>, <<255, 255>>, U32LE(0)}

LoopBuffers ==
    [readBytesWithLength |-> {U32LE(3) \o <<1, 2, 3>>, <<255, 255, 255, 127, 1, 2>>},
     readTuple |-> {U32LE(2) \o Times(U256BE(1), 2),
                    <<255, 255, 255, 127>> \o U256BE(1)},
     readAddressArray |-> {U16LE(LongCount) \o Times(Addr(1), LongCount),
                           <<255, 255>> \o Addr(1)},
     readAddressValueTuple |-> {EncodeTuple(<<1, 2>>), EncodeTuple(<<1, 1>>),
                                <<255, 255>> \o Addr(1) \o U256BE(1)},
     readMultiBytesAddressMap |-> {EncodeBatch(<<1, 2>>, <<2, 0>>, 1),
                                   EncodeBatch(<<1, 1>>, <<1, 1>>, 1),
                                   <<MaxContracts + 1>> \o Addr(1),
                                   <<1>> \o Addr(1) \o <<MaxCalls + 1>>},
     readTransactionInputs |-> {<<2>> \o Times(WireInput, 2), <<255>> \o WireInput},
     readTransactionOutputs |-> {<<255>> \o Times(WireOutput, 255),
                                 <<255>> \o WireOutput}]

LoopInputs ==
    {[kind |-> "raw", addrs |-> <<>>, rs |-> <<>>, blen |-> 0, cut |-> 0, buf |-> b] :
        b \in ShortBuffers}
    \cup UNION {{[kind |-> op, addrs |-> <<>>, rs |-> <<>>, blen |-> 0, cut |-> 0, buf |-> b] :
                    b \in LoopBuffers[op]} : op \in LoopOps}

InitLoop == Construct(LoopInputs)

NextLoop ==
    \/ LoopEnter
    \/ LoopIterate
    \/ LoopCalls
    \/ LoopCall
    \/ LoopCallsDone
    \/ LoopReturn

LoopRunning == loop.pc \in {"for", "calls"}
LoopFinished == loop.pc \in {"returned", "thrown"}

\* One call runs to completion before anything else happens: the step that
\* is due is taken.  This is weak fairness of NextLoop, WF_vars(NextLoop),
\* with ENABLED <<NextLoop>>_vars written as the state predicate it equals:
\* a step is due in every state in which the decode has not finished (the
\* guards of LoopIterate, LoopCalls and LoopReturn cover pc = "for", those of
\* LoopCall and LoopCallsDone cover pc = "calls", LoopEnter is due before).
LoopFair == []<>LoopFinished \/ []<><<NextLoop>>_vars

SpecLoop == InitLoop /\ [][NextLoop]_vars /\ LoopFair

\* ---------------------------------------------------------- encodePointer
\* Sha256.hash (math/sha256): 32 bytes determined by the content; distinct
\* keys of the model differ within the first 30 bytes.
RECURSIVE Mix(_)
Mix(typed) == IF typed = <<>> THEN 7 ELSE (Mix(Tail(typed)) * 31 + Head(typed) + 1) % 251

Sha256(typed) ==
    LET content == Mix(typed) IN
    [i \in 1..32 |-> (content * 31 + i * 7) % 256]

\* bytes32 (math/bytes): the pointer is held as the 32 bytes it is built from.
bytes32(bytes) == bytes

\* encodePointer copying hash[i + 2] instead of hash[i].
encodePointer_HashUnshifted(uniqueIdentifier, typed) ==
    LET hash == Sha256(typed)
        finalPointer == [i \in 1..32 |->
            IF i = 1 THEN uniqueIdentifier % 256
            ELSE IF i = 2 THEN (uniqueIdentifier \div 256) % 256
            ELSE hash[IF i <= 30 THEN i ELSE i - 2]]
    IN bytes32(finalPointer)

\* encodePointer with the identifier's high byte lost (finalPointer[1] = 0).
encodePointer_LowByteOnly(uniqueIdentifier, typed) ==
    LET hash == Sha256(typed)
        finalPointer == [i \in 1..32 |->
            IF i = 1 THEN uniqueIdentifier % 256
            ELSE IF i = 2 THEN 0
            ELSE hash[i - 2]]
    IN bytes32(finalPointer)

\* finalPointer[0] = id & 0xff, finalPointer[1] = (id >> 8) & 0xff,
\* finalPointer[i + 2] = hash[i] for i < 30
encodePointer(uniqueIdentifier, typed) ==
    LET hash == Sha256(typed)
        finalPointer == [i \in 1..32 |->
            IF i = 1 THEN uniqueIdentifier % 256
            ELSE IF i = 2 THEN (uniqueIdentifier \div 256) % 256
            ELSE hash[i - 2]]
    IN bytes32(finalPointer)

\* ------------------------------------------------- encodePointer, applied
\* u16 identifiers around the byte boundary, and keys as byte strings up to
\* MaxKeyLen bytes and the UTF-8 bytes of "balance"
PointerIds == {0, 1, 2, 255, 256, 257, 513, 65535}
Balance == <<98, 97, 108, 97, 110, 99, 101>>
PointerKeys == UNION {[1..n -> {97, 98}] : n \in 0..MaxKeyLen} \cup {Balance}

\* one call of encodePointer(uniqueIdentifier, typed)
EncodePointer ==
    \E uniqueIdentifier \in PointerIds, typed \in PointerKeys :
        /\ call' = [op |-> "encodePointer", table |-> uniqueIdentifier, key |-> typed,
                    value |-> 0, ret |-> encodePointer(uniqueIdentifier, typed)]
        /\ UNCHANGED <<buffer, currentOffset, last, clean, wire, storage, defaultValue, everSet,
                       entries, mergers, loop>>

InitPointer ==
    /\ buffer = <<>>
    /\ currentOffset = 0
    /\ last = NoOp
    /\ clean = TRUE
    /\ wire = NoWire
    /\ storage = <<>>
    /\ defaultValue = <<>>
    /\ call = NoCall
    /\ everSet = {}
    /\ entries = <<>>
    /\ mergers = <<>>
    /\ loop = NoLoop

NextPointer == EncodePointer

SpecPointer == InitPointer /\ [][NextPointer]_vars

\* -------------------------------------------------------- tables and keys
\* Two tables whose ids share the low byte, keys as their UTF-8 bytes.
Tables == {1, 257}
Keys == {<<96 + k>> : k \in 1..NumKeys}
Values == {0, 1}

\* ----------------------------------------------------------- host storage
\* Blockchain.getStorageAt / setStorageAt / hasStorageAt (env): a key-value
\* store.  The map hands the host its table id and the key; the slot that is
\* addressed is the pointer encodePointer(table id, key), tabulated here for
\* the tables and keys of the model.
SlotOf == [pointer \in Tables |-> [key \in Keys |-> encodePointer(pointer, key)]]
Slot(pointer, key) == SlotOf[pointer][key]

hasStorageAt(st, pointer, key) == Slot(pointer, key) \in DOMAIN st

getStorageAt(st, pointer, key, default) ==
    LET slot == Slot(pointer, key) IN
    IF slot \in DOMAIN st THEN st[slot] ELSE default

setStorageAt(st, pointer, key, value) ==
    LET slot == Slot(pointer, key) IN
    [p \in DOMAIN st \cup {slot} |-> IF p = slot THEN value ELSE st[p]]

\* ------------------------------------------------------- AddressMemoryMap
\* Each method takes the host storage st and the fields of this (pointer,
\* defaultValue) and yields the storage it leaves and what it returns.
AddressMemoryMap_set(st, pointer, key, value) ==
    [storage |-> setStorageAt(st, pointer, key, value), ret |-> "this"]

\* get that stores the default it returns for an absent key.
AddressMemoryMap_get_PersistsDefault(st, pointer, default, key) ==
    [storage |-> IF hasStorageAt(st, pointer, key) THEN st
                 ELSE setStorageAt(st, pointer, key, default),
     ret |-> getStorageAt(st, pointer, key, default)]

AddressMemoryMap_get(st, pointer, default, key) ==
    [storage |-> st, ret |-> getStorageAt(st, pointer, key, default)]

AddressMemoryMap_has(st, pointer, key) ==
    [storage |-> st, ret |-> hasStorageAt(st, pointer, key)]

\* delete that removes the slot instead of storing the default.
AddressMemoryMap_delete_Removes(st, pointer, default, key) ==
    LET slot == Slot(pointer, key) IN
    [storage |-> [p \in DOMAIN st \ {slot} |-> st[p]], ret |-> TRUE]

AddressMemoryMap_delete(st, pointer, default, key) ==
    [storage |-> AddressMemoryMap_set(st, pointer, key, default).storage, ret |-> TRUE]

\* ---------------------------------------------------------- store actions
Called(op, t, k, v, r) ==
    /\ storage' = r.storage
    /\ call' = [op |-> op, table |-> t, key |-> k, value |-> v, ret |-> r.ret]
    /\ UNCHANGED <<buffer, currentOffset, last, clean, wire, defaultValue, entries, mergers, loop>>

Set ==
    \E t \in Tables, k \in Keys, v \in Values :
        /\ Called("set", t, k, v, AddressMemoryMap_set(storage, t, k, v))
        /\ everSet' = everSet \cup {<<t, k>>}

Get ==
    \E t \in Tables, k \in Keys :
        /\ Called("get", t, k, 0, AddressMemoryMap_get(storage, t, defaultValue[t], k))
        /\ UNCHANGED everSet

Has ==
    \E t \in Tables, k \in Keys :
        /\ Called("has", t, k, 0, AddressMemoryMap_has(storage, t, k))
        /\ UNCHANGED everSet

Delete ==
    \E t \in Tables, k \in Keys :
        /\ Called("delete", t, k, 0, AddressMemoryMap_delete(storage, t, defaultValue[t], k))
        /\ everSet' = everSet \cup {<<t, k>>}

\* clear() throws: nothing is stored
Clear ==
    \E t \in Tables :
        /\ Called("clear", t, <<>>, 0, [storage |-> storage, ret |-> "throws"])
        /\ UNCHANGED everSet

\* new AddressMemoryMap(pointer, defaultValue) for each table, over a host
\* storage that holds nothing yet
InitStore ==
    /\ buffer = <<>>
    /\ currentOffset = 0
    /\ last = NoOp
    /\ clean = TRUE
    /\ wire = NoWire
    /\ storage = <<>>
    /\ defaultValue \in [Tables -> Values]
    /\ call = NoCall
    /\ everSet = {}
    /\ entries = <<>>
    /\ mergers = <<>>
    /\ loop = NoLoop

NextStore ==
    \/ Set
    \/ Get
    \/ Has
    \/ Delete
    \/ Clear

SpecStore == InitStore /\ [][NextStore]_vars

\* -------------------------------------------------- MultiAddressMemoryMap
\* The Map the class extends, as the record m = [entries, mergers]: entries
\* maps a key to the aggregator stored for it, and an aggregator is an object,
\* named by its place in mergers.  A key of the model stands for one
\* Uint8Array object, which is how the Map tells keys apart.
Map_has(m, key) == key \in DOMAIN m.entries
Map_get(m, key) == m.entries[key]
Map_set(m, key, value) ==
    [entries |-> [k \in DOMAIN m.entries \cup {key} |->
                     IF k = key THEN value ELSE m.entries[k]],
     mergers |-> m.mergers]
Map_delete(m, key) ==
    [entries |-> [k \in DOMAIN m.entries \ {key} |-> m.entries[k]], mergers |-> m.mergers]
Map_clear(m) == [entries |-> <<>>, mergers |-> m.mergers]

\* new Uint8ArrayMerger(key, pointer, defaultValue): an empty aggregator bound
\* to the key and the table id; set(key2, value) puts key2 -> value in it.
NewMerger(key, pointer, default) ==
    [NoMerger EXCEPT !.key = key, !.pointer = pointer, !.default = default]
MergerSet(merger, key2, value) ==
    [merger EXCEPT !.slots = [k \in DOMAIN merger.slots \cup {key2} |->
                                 IF k = key2 THEN value ELSE merger.slots[k]]]

\* createKeyMerger without its test of super.has(key)
createKeyMerger_AlwaysCreates(m, pointer, default, key) ==
    Map_set([entries |-> m.entries,
             mergers |-> Append(m.mergers, NewMerger(key, pointer, default))],
            key, Len(m.mergers) + 1)

createKeyMerger(m, pointer, default, key) ==
    IF ~Map_has(m, key)
    THEN Map_set([entries |-> m.entries,
                  mergers |-> Append(m.mergers, NewMerger(key, pointer, default))],
                 key, Len(m.mergers) + 1)
    ELSE m

MultiAddressMemoryMap_get(m, pointer, default, key) ==
    LET e == createKeyMerger(m, pointer, default, key) IN
    [entries |-> e.entries, mergers |-> e.mergers, ret |-> Map_get(e, key)]

\* setUpperKey that stores a fresh aggregator for key on every call
MultiAddressMemoryMap_setUpperKey_Replaces(m, pointer, default, key, key2, value) ==
    LET e == createKeyMerger_AlwaysCreates(m, pointer, default, key)
        subMap == Map_get(e, key)
    IN [entries |-> e.entries,
        mergers |-> [e.mergers EXCEPT ![subMap] = MergerSet(@, key2, value)],
        ret |-> "this"]

MultiAddressMemoryMap_setUpperKey(m, pointer, default, key, key2, value) ==
    LET e == createKeyMerger(m, pointer, default, key)
        subMap == Map_get(e, key)
    IN [entries |-> e.entries,
        mergers |-> [e.mergers EXCEPT ![subMap] = MergerSet(@, key2, value)],
        ret |-> "this"]

\* set collapsed into "insert if absent": the supplied aggregator is stored
\* only when the ensure-step built nothing
MultiAddressMemoryMap_set_InsertIfAbsent(m, pointer, default, key, value) ==
    LET w == IF Map_has(m, key) THEN m ELSE Map_set(m, key, value)
    IN [entries |-> w.entries, mergers |-> w.mergers, ret |-> "this"]

MultiAddressMemoryMap_set(m, pointer, default, key, value) ==
    LET e == createKeyMerger(m, pointer, default, key)
        w == Map_set(e, key, value)
    IN [entries |-> w.entries, mergers |-> w.mergers, ret |-> "this"]

\* has with the ensure-step of get in front of it
MultiAddressMemoryMap_has_Ensures(m, key) ==
    LET e == createKeyMerger(m, 0, 0, key)
    IN [entries |-> e.entries, mergers |-> e.mergers, ret |-> Map_has(e, key)]

MultiAddressMemoryMap_has(m, key) ==
    [entries |-> m.entries, mergers |-> m.mergers, ret |-> Map_has(m, key)]

MultiAddressMemoryMap_delete(m, key) ==
    LET w == Map_delete(m, key) IN
    [entries |-> w.entries, mergers |-> w.mergers, ret |-> Map_has(m, key)]

MultiAddressMemoryMap_clear(m) ==
    LET w == Map_clear(m) IN
    [entries |-> w.entries, mergers |-> w.mergers, ret |-> "void"]

\* ---------------------------------------------------- two-level actions
\* One table (pointer MultiPointer), two primary and two secondary keys.
MultiPointer == 1
Keys1 == {<<97>>, <<98>>}
Keys2 == {<<1>>, <<2>>}
Values2 == {1}

This == [entries |-> entries, mergers |-> mergers]

\* One call of a method; no more than MaxMergers aggregators are ever built.
MultiCalled(op, k, v, r) ==
    /\ Len(r.mergers) <= MaxMergers
    /\ entries' = r.entries
    /\ mergers' = r.mergers
    /\ call' = [op |-> op, table |-> MultiPointer, key |-> k, value |-> v, ret |-> r.ret]
    /\ UNCHANGED <<buffer, currentOffset, last, clean, wire, storage, defaultValue, everSet,
                   loop>>

MultiGet ==
    \E k \in Keys1 :
        MultiCalled("multi.get", k, 0,
            MultiAddressMemoryMap_get(This, MultiPointer, defaultValue[MultiPointer], k))

MultiSetUpperKey ==
    \E k \in Keys1, k2 \in Keys2, v \in Values2 :
        MultiCalled("multi.setUpperKey", k, <<k2, v>>,
            MultiAddressMemoryMap_setUpperKey(This, MultiPointer, defaultValue[MultiPointer],
                                              k, k2, v))

\* the caller builds an aggregator of its own, for any key
NewAggregator ==
    \E k \in Keys1 :
        MultiCalled("new", k, 0,
            [entries |-> entries,
             mergers |-> Append(mergers,
                 NewMerger(k, MultiPointer, defaultValue[MultiPointer])),
             ret |-> Len(mergers) + 1])

\* set(key, value) with any aggregator that exists
MultiSet ==
    \E k \in Keys1, a \in DOMAIN mergers :
        MultiCalled("multi.set", k, a,
            MultiAddressMemoryMap_set(This, MultiPointer, defaultValue[MultiPointer], k, a))

MultiHas ==
    \E k \in Keys1 : MultiCalled("multi.has", k, 0, MultiAddressMemoryMap_has(This, k))

MultiDelete ==
    \E k \in Keys1 : MultiCalled("multi.delete", k, 0, MultiAddressMemoryMap_delete(This, k))

MultiClear == MultiCalled("multi.clear", <<>>, 0, MultiAddressMemoryMap_clear(This))

\* new MultiAddressMemoryMap(pointer, defaultValue): an empty Map
InitMulti ==
    /\ buffer = <<>>
    /\ currentOffset = 0
    /\ last = NoOp
    /\ clean = TRUE
    /\ wire = NoWire
    /\ storage = <<>>
    /\ defaultValue \in [{MultiPointer} -> Values]
    /\ call = NoCall
    /\ everSet = {}
    /\ entries = <<>>
    /\ mergers = <<>>
    /\ loop = NoLoop

NextMulti ==
    \/ MultiGet
    \/ MultiSetUpperKey
    \/ NewAggregator
    \/ MultiSet
    \/ MultiHas
    \/ MultiDelete
    \/ MultiClear

SpecMulti == InitMulti /\ [][NextMulti]_vars

\* ================================================================ claims
\* Width of the fixed-width reads.
FixedWidth ==
    [readU8 |-> 1, readBoolean |-> 1, readU16 |-> 2, readU32 |-> 4, readSelector |-> 4,
     readFloat |-> 4, readU64 |-> 8, readI64 |-> 8, readU128 |-> 16, readI128 |-> 16,
     readU256 |-> 32, readI256 |-> 32, readAddress |-> ADDRESS_BYTE_LENGTH]

\* The length prefix a readBytesWithLength started at offset p would see.
PrefixAt(p) == IF InRange(buffer, p, 4) THEN ValueLE(Slice(buffer, p, 4)) ELSE 0

\* Bytes the read l needs, and bytes left when it started.
Need(l) ==
    IF l.op \in DOMAIN FixedWidth THEN FixedWidth[l.op]
    ELSE IF l.op \in {"readBytes", "readString"} THEN l.n
    ELSE 4 + PrefixAt(l.before)
Remaining(l) == Len(buffer) - l.before

CursorReads ==
    {"readU8", "readU16", "readU32", "readU64", "readI64", "readU128", "readI128",
     "readU256", "readI256", "readBytes", "readAddress"}

\* C1: a read (readU8, readU16, readU32, readU64, readI64, readU128, readI128,
\* readU256, readI256, readBytes, readAddress) started where fewer bytes
\* remain than it needs fails and leaves getOffset() where it was before the
\* read.
C1_FailedReadKeepsOffset ==
    (/\ last.op \in CursorReads
     /\ last.op = "readBytes" => ~last.flag
     /\ Remaining(last) < Need(last))
        => (~last.ok /\ currentOffset = last.before)

TypedReads ==
    {"readU8", "readU16", "readU32", "readU64", "readI64", "readU128", "readI128",
     "readU256", "readI256", "readFloat", "readBoolean", "readAddress", "readBytes",
     "readBytesWithLength"}

\* C2 as stated: every typed read (u8, u16, u32, u64, i64, u128, i128, u256,
\* i256, float32, boolean, address, fixed bytes(N), length-prefixed bytes)
\* whose required width exceeds buffer length minus current offset fails.
C2_ShortReadFails ==
    (/\ last.op \in TypedReads
     /\ last.op = "readBytes" => ~last.flag
     /\ Need(last) > Remaining(last)) => ~last.ok

\* C2, amended: every such typed read that requires at least one byte and
\* whose required width exceeds buffer length minus current offset fails.
C2_ShortReadOfBytesFails ==
    (/\ last.op \in TypedReads
     /\ last.op = "readBytes" => ~last.flag
     /\ Need(last) >= 1
     /\ Need(last) > Remaining(last)) => ~last.ok

\* a readFloat (which has no verifyEnd) started 1..3 bytes before the end failed
C2_Witness ==
    /\ last.op = "readFloat"
    /\ Remaining(last) \in 1..3
    /\ ~last.ok

\* The bytes of s before its first zero (all of s if it has none).
RECURSIVE UpToZero(_)
UpToZero(s) ==
    IF s = <<>> \/ Head(s) = 0 THEN <<>> ELSE <<Head(s)>> \o UpToZero(Tail(s))

\* C3: readBytes(N, zeroStop = true) or readString(N) with at least N bytes
\* left returns the bytes before the first 0x00 among the next N bytes and
\* leaves the offset at its starting offset + N.
C3_ZeroStopConsumesDeclaredCount ==
    (/\ \/ last.op = "readBytes" /\ last.flag
        \/ last.op = "readString"
     /\ last.before >= 0
     /\ last.n <= Remaining(last))
        => /\ last.ok
           /\ last.val = UpToZero(Slice(buffer, last.before, last.n))
           /\ currentOffset = last.before + last.n

\* C4: while every operation on the reader was a read that returned (no
\* setOffset), 0 <= getOffset() <= buffer length.
C4_OffsetWithinBuffer ==
    clean => (0 <= currentOffset /\ currentOffset <= Len(buffer))

\* reads that all returned have consumed a non-empty buffer exactly to its end
C4_Witness ==
    /\ clean
    /\ last.op = "readFloat"
    /\ currentOffset = Len(buffer)

\* What a read of the given name decodes from the bytes b it consumed.
Decoded(op, le, b) ==
    CASE op = "readU8" -> b[1]
      [] op = "readBoolean" -> b[1] # 0
      [] op = "readU16" -> b[1] + b[2] * 256
      [] op = "readU32" /\ le -> b[1] + b[2] * 256 + b[3] * 65536 + b[4] * 16777216
      [] op = "readU32" /\ ~le -> b[4] + b[3] * 256 + b[2] * 65536 + b[1] * 16777216
      [] op = "readSelector" -> b[4] + b[3] * 256 + b[2] * 65536 + b[1] * 16777216
      [] op \in {"readU64", "readI64", "readFloat"} -> [i \in 1..Len(b) |-> b[Len(b) + 1 - i]]
      [] OTHER -> b

AdvancingReads ==
    {"readU8", "readBoolean", "readU16", "readU32", "readSelector", "readFloat", "readU64",
     "readI64", "readU128", "readI128", "readU256", "readI256", "readAddress"}

\* C5, one step: a read that returns has moved the offset by exactly its
\* width and decoded the bytes that start where the cursor stood.
C5Step ==
    /\ (last'.ok /\ last'.op \in AdvancingReads) =>
          /\ currentOffset' = currentOffset + FixedWidth[last'.op]
          /\ last'.val = Decoded(last'.op, last'.flag,
                                 Slice(buffer, currentOffset, FixedWidth[last'.op]))
    /\ (last'.ok /\ last'.op = "readBytes" /\ ~last'.flag) =>
          /\ currentOffset' = currentOffset + last'.n
          /\ last'.val = Slice(buffer, currentOffset, last'.n)
    /\ (last'.ok /\ last'.op = "readBytesWithLength") =>
          /\ currentOffset' = currentOffset + 4 + PrefixAt(currentOffset)
          /\ last'.val = Slice(buffer, currentOffset + 4, PrefixAt(currentOffset))
    \* over [0x05, 0x2A, 0, 0, 0]: readU8() then readU32(true) is 5 then 42, ending at 5
    /\ (/\ buffer = <<5, 42, 0, 0, 0>>
        /\ last.op = "readU8" /\ last.before = 0 /\ currentOffset = last.before + 1
        /\ last'.op = "readU32" /\ last'.flag) =>
          /\ last.ok /\ last.val = 5
          /\ last'.ok /\ last'.val = 42
          /\ currentOffset' = 5

\* C5: every read that returns advances the offset by exactly the width it
\* consumed and decodes from where the previous read ended.
C5_ReadAdvancesByWidth == [][C5Step]_vars

\* readU8() then readU32(true) over the scenario buffer
C5_Witness ==
    /\ buffer = <<5, 42, 0, 0, 0>>
    /\ clean
    /\ last.op = "readU32" /\ last.flag
    /\ last.ok
    /\ last.before = 1

NoRepeat(addrs) == \A i, j \in 1..Len(addrs) : addrs[i] = addrs[j] => i = j

\* C6: readAddressValueTuple fails whenever an address repeats among the
\* pairs, never returns a map in which a later pair replaced an earlier one,
\* and returns exactly count entries when the addresses are distinct.
C6_DuplicateAddressRejected ==
    last.op = "readAddressValueTuple" =>
        /\ last.ok => Cardinality(DOMAIN last.val) = ValueLE(Slice(buffer, last.before, 2))
        /\ (wire.kind = "tuple" /\ last.before = 0) =>
              /\ ~NoRepeat(wire.addrs) => ~last.ok
              /\ (NoRepeat(wire.addrs) /\ wire.cut = 0) => last.ok
              /\ last.ok =>
                    /\ DOMAIN last.val = {Addr(wire.addrs[i]) : i \in 1..Len(wire.addrs)}
                    /\ \A i \in 1..Len(wire.addrs) : last.val[Addr(wire.addrs[i])] = U256BE(i)

\* three complete pairs whose third address repeats the first were rejected
C6_Witness ==
    /\ last.op = "readAddressValueTuple"
    /\ wire.kind = "tuple" /\ wire.addrs = <<1, 2, 1>> /\ wire.cut = 0
    /\ last.before = 0
    /\ ~last.ok

\* C7: readMultiBytesAddressMap fails on an address count above 8 and on a
\* per-address blob count above 10; a complete batch within both caps decodes,
\* and no returned map has more than 8 addresses or more than 10 blobs each.
C7_BatchCaps ==
    last.op = "readMultiBytesAddressMap" =>
        /\ (InRange(buffer, last.before, 1) /\ buffer[last.before + 1] > 8) => ~last.ok
        /\ last.ok =>
              /\ Cardinality(DOMAIN last.val) <= 8
              /\ \A a \in DOMAIN last.val : Len(last.val[a]) <= 10
        /\ (wire.kind = "batch" /\ last.before = 0) =>
              /\ Len(wire.addrs) > 8 => ~last.ok
              /\ (\E i \in 1..Len(wire.rs) : wire.rs[i] > 10) => ~last.ok
              /\ (/\ Len(wire.addrs) <= 8
                  /\ \A i \in 1..Len(wire.rs) : wire.rs[i] <= 10
                  /\ wire.cut = 0) =>
                    /\ last.ok
                    /\ currentOffset = Len(buffer)
                    /\ \A i \in 1..Len(wire.addrs) :
                          Addr(wire.addrs[i]) \in DOMAIN last.val

\* a batch of 8 addresses with 10 blobs each was decoded
C7_Witness ==
    /\ last.op = "readMultiBytesAddressMap"
    /\ wire.kind = "batch" /\ Len(wire.addrs) = 8 /\ wire.rs = Const(8, 10)
    /\ last.before = 0
    /\ last.ok
    /\ Cardinality(DOMAIN last.val) = 8
    /\ \A a \in DOMAIN last.val : Len(last.val[a]) = 10

\* C8: right after delete(key) on an AddressMemoryMap, whatever was set or
\* deleted before, get(key) returns the table's default value and has(key)
\* reports true.
C8_DeleteLeavesDefaultPresent ==
    call.op = "delete" =>
        /\ AddressMemoryMap_get(storage, call.table, defaultValue[call.table], call.key).ret
              = defaultValue[call.table]
        /\ AddressMemoryMap_has(storage, call.table, call.key).ret = TRUE

\* a key of a table whose default is 1 was deleted while the same key of the
\* other table holds another value
C8_Witness ==
    /\ call.op = "delete"
    /\ defaultValue[call.table] = 1
    /\ \E u \in Tables \ {call.table} :
          /\ hasStorageAt(storage, u, call.key)
          /\ getStorageAt(storage, u, call.key, 1) = 0
    /\ hasStorageAt(storage, call.table, call.key)
    /\ getStorageAt(storage, call.table, call.key, 0) = 1

\* C9: get(key) on a key that was never set returns the table's default
\* value, leaves the host storage as it was, and has(key) is false afterwards.
C9_GetOfUnsetKeyWritesNothing ==
    \A t \in Tables, k \in Keys :
        <<t, k>> \notin everSet =>
            LET r == AddressMemoryMap_get(storage, t, defaultValue[t], k) IN
            /\ r.ret = defaultValue[t]
            /\ r.storage = storage
            /\ AddressMemoryMap_has(r.storage, t, k).ret = FALSE

\* get returned the default 1 for a key never set, while other keys are stored
C9_Witness ==
    /\ call.op = "get"
    /\ <<call.table, call.key>> \notin everSet
    /\ everSet # {}
    /\ defaultValue[call.table] = 1
    /\ call.ret = 1
    /\ ~hasStorageAt(storage, call.table, call.key)

\* What every key of every table other than t reads as, over the storage st.
OtherTables(st, t) ==
    [u \in Tables \ {t} |-> [k \in Keys |->
        <<AddressMemoryMap_get(st, u, defaultValue[u], k).ret,
          AddressMemoryMap_has(st, u, k).ret>>]]

C10Step ==
    call'.op \in {"set", "delete"} =>
        OtherTables(storage', call'.table) = OtherTables(storage, call'.table)

C11_PointerLayout ==
    call.op = "encodePointer" =>
        LET ns == call.table
            p == call.ret
        IN /\ Len(p) = 32
           /\ p[1] + 256 * p[2] = ns
           /\ p[1] \in 0..255 /\ p[2] \in 0..255
           /\ \A i \in 1..30 : p[i + 2] = Sha256(call.key)[i]
           /\ encodePointer(ns, call.key) = p
           /\ \A other \in PointerIds \ {ns} :
                 LET q == encodePointer(other, call.key) IN
                 /\ \A i \in 3..32 : q[i] = p[i]
                 /\ <<q[1], q[2]>> # <<p[1], p[2]>>

\* encodePointer(257, "balance") starts with the bytes 1, 1
C11_Witness ==
    /\ call.op = "encodePointer"
    /\ call.table = 257
    /\ call.key = Balance
    /\ call.ret[1] = 1 /\ call.ret[2] = 1
    /\ encodePointer(1, Balance)[2] = 0

\* The aggregator a fresh MultiAddressMemoryMap builds for key
DefaultMerger(key) == NewMerger(key, MultiPointer, defaultValue[MultiPointer])

\* C12: get(key) of the two-level map always returns an aggregator.  When the
\* key has no entry it builds one empty aggregator bound to key and to the
\* table id and inserts it; has(key) is true after every get(key); the entry
\* of a key that is present is returned as it is and nothing is built, and a
\* second get(key) returns the same aggregator without building another.
C12Step ==
    call'.op = "multi.get" =>
        LET k == call'.key
            again == MultiAddressMemoryMap_get([entries |-> entries', mergers |-> mergers'],
                         MultiPointer, defaultValue[MultiPointer], k)
        IN /\ MultiAddressMemoryMap_has([entries |-> entries', mergers |-> mergers'], k).ret
           /\ call'.ret \in DOMAIN mergers'
           /\ call'.ret = entries'[k]
           /\ IF k \in DOMAIN entries
              THEN /\ entries' = entries
                   /\ mergers' = mergers
              ELSE /\ mergers' = Append(mergers, DefaultMerger(k))
                   /\ mergers'[call'.ret].slots = <<>>
                   /\ mergers'[call'.ret].key = k
                   /\ mergers'[call'.ret].pointer = MultiPointer
                   /\ call'.ret = Len(mergers) + 1
                   /\ \A j \in DOMAIN entries : entries'[j] = entries[j]
           /\ again.ret = call'.ret
           /\ again.mergers = mergers'
           /\ again.entries = entries'

C12_GetAlwaysYieldsAggregator == [][C12Step]_vars

\* get(key) on a map without entries has built the only aggregator there is
C12_Witness ==
    /\ call.op = "multi.get"
    /\ DOMAIN entries = {call.key}
    /\ Len(mergers) = 1
    /\ mergers[1] = DefaultMerger(call.key)
    /\ call.ret = 1

\* C13: after set(key, a) the entry of key is the aggregator a the caller
\* supplied, whether key had no entry (the default built by the ensure-step
\* is overwritten) or another aggregator; get(key) then returns a; the
\* entries of all other keys are unchanged and a itself is not altered.
C13Step ==
    call'.op = "multi.set" =>
        LET k == call'.key
            a == call'.value
            after == MultiAddressMemoryMap_get([entries |-> entries', mergers |-> mergers'],
                         MultiPointer, defaultValue[MultiPointer], k)
        IN /\ a \in DOMAIN mergers
           /\ entries'[k] = a
           /\ after.ret = a
           /\ after.entries = entries'
           /\ after.mergers = mergers'
           /\ mergers'[a] = mergers[a]
           /\ DOMAIN entries' = DOMAIN entries \cup {k}
           /\ \A j \in DOMAIN entries \ {k} : entries'[j] = entries[j]
           /\ (k \in DOMAIN entries /\ entries[k] # a) => entries'[k] # entries[k]
           /\ k \notin DOMAIN entries =>
                 /\ Len(mergers') = Len(mergers) + 1
                 /\ mergers'[Len(mergers')] = DefaultMerger(k)
                 /\ entries'[k] # Len(mergers')

C13_SuppliedAggregatorWins == [][C13Step]_vars

\* set(key, a) on a key without entry: the default built for key is on the
\* heap, unreferenced, and the entry is the caller's aggregator
C13_Witness ==
    /\ call.op = "multi.set"
    /\ call.value = 1
    /\ Len(mergers) = 2
    /\ mergers[1].key # call.key
    /\ mergers[2] = DefaultMerger(call.key)
    /\ DOMAIN entries = {call.key}
    /\ entries[call.key] = 1

\* set(key, a) on a key whose entry was another aggregator
C13_WitnessReplaced ==
    /\ call.op = "multi.set"
    /\ call.value = 2
    /\ Len(mergers) = 2
    /\ mergers[1] = DefaultMerger(call.key)
    /\ entries[call.key] = 2

\* has(k) as the map answers it in the state after the step
HasAfter(k) == MultiAddressMemoryMap_has([entries |-> entries', mergers |-> mergers'], k).ret

\* C14: has, delete and clear run no ensure-step.  has(key) answers whether
\* key has an entry and changes nothing, so it is false for a key without
\* entry and builds none; delete(key) removes the entry of key and no other,
\* and has(key) is false afterwards; after clear has(k) is false for every k;
\* no entry appears until the next get, set or setUpperKey.
C14Step ==
    /\ call'.op = "multi.has" =>
          /\ call'.ret = (call'.key \in DOMAIN entries)
          /\ entries' = entries
          /\ mergers' = mergers
    /\ call'.op = "multi.delete" =>
          /\ call'.ret = (call'.key \in DOMAIN entries)
          /\ DOMAIN entries' = DOMAIN entries \ {call'.key}
          /\ \A j \in DOMAIN entries' : entries'[j] = entries[j]
          /\ mergers' = mergers
          /\ ~HasAfter(call'.key)
    /\ call'.op = "multi.clear" =>
          /\ entries' = <<>>
          /\ mergers' = mergers
          /\ \A k \in Keys1 : ~HasAfter(k)
    /\ call'.op \notin {"multi.get", "multi.set", "multi.setUpperKey"} =>
          DOMAIN entries' \subseteq DOMAIN entries

C14_NoEnsureStep == [][C14Step]_vars

\* has(key) answers false for a key whose aggregator was built and whose
\* entry has been removed since, and builds nothing
C14_Witness ==
    /\ call.op = "multi.has"
    /\ call.ret = FALSE
    /\ entries = <<>>
    /\ Len(mergers) = 1
    /\ mergers[1].key = call.key
    /\ mergers[1].slots # <<>>

\* C15: setUpperKey(key, key2, value) ensures the aggregator of key and sets
\* key2 -> value in it: afterwards has(key) is true and get(key) holds value
\* under key2.  An aggregator key already had is kept, not replaced, with its
\* other secondary keys as they were; a missing one is built empty first.
\* The entries of the other primary keys and every other aggregator object
\* are unchanged.
C15Step ==
    call'.op = "multi.setUpperKey" =>
        LET k == call'.key
            k2 == call'.value[1]
            v == call'.value[2]
            after == MultiAddressMemoryMap_get([entries |-> entries', mergers |-> mergers'],
                         MultiPointer, defaultValue[MultiPointer], k)
            g == after.ret
            was == IF k \in DOMAIN entries THEN mergers[entries[k]] ELSE DefaultMerger(k)
        IN /\ HasAfter(k)
           /\ after.entries = entries'
           /\ after.mergers = mergers'
           /\ k2 \in DOMAIN mergers'[g].slots
           /\ mergers'[g].slots[k2] = v
           /\ DOMAIN mergers'[g].slots = DOMAIN was.slots \cup {k2}
           /\ \A o \in DOMAIN was.slots \ {k2} : mergers'[g].slots[o] = was.slots[o]
           /\ mergers'[g].key = was.key
           /\ mergers'[g].pointer = was.pointer
           /\ mergers'[g].default = was.default
           /\ IF k \in DOMAIN entries
              THEN /\ entries' = entries
                   /\ Len(mergers') = Len(mergers)
              ELSE /\ g = Len(mergers) + 1
                   /\ Len(mergers') = Len(mergers) + 1
                   /\ DOMAIN entries' = DOMAIN entries \cup {k}
           /\ \A j \in DOMAIN entries \ {k} : entries'[j] = entries[j]
           /\ \A i \in DOMAIN mergers \ {g} : mergers'[i] = mergers[i]

Reread(l, buf, p) ==
    CASE l.op = "readU8" -> readU8(buf, p)
      [] l.op = "readU16" -> readU16(buf, p)
      [] l.op = "readU32" -> readU32(buf, p, l.flag)
      [] l.op = "readU64" -> readU64(buf, p)
      [] l.op = "readI64" -> readI64(buf, p)
      [] l.op = "readU128" -> readU128(buf, p)
      [] l.op = "readI128" -> readI128(buf, p)
      [] l.op = "readU256" -> readU256(buf, p)
      [] l.op = "readI256" -> readI256(buf, p)
      [] l.op = "readBytes" -> readBytes(buf, p, l.n, l.flag)
      [] l.op = "readBytesWithLength" -> readBytesWithLength(buf, p)
      [] l.op = "readString" -> readString(buf, p, l.n)
      [] l.op = "readSelector" -> readSelector(buf, p)
      [] l.op = "readBoolean" -> readBoolean(buf, p)
      [] l.op = "readFloat" -> readFloat(buf, p)
      [] l.op = "readAddress" -> readAddress(buf, p)
      [] l.op = "readAddressValueTuple" -> readAddressValueTuple(buf, p)
      [] l.op = "readMultiBytesAddressMap" -> readMultiBytesAddressMap(buf, p)
      [] l.op = "verifyEnd" ->
            IF verifyEnd(buf, p, l.n) THEN Ok(p, <<>>) ELSE Thrown(p)

\* C16: no read changes the buffer; setOffset(p) followed by getOffset()
\* gives p; and for a read R that succeeded from offset p, setOffset(p)
\* followed by R again returns the value R returned and ends at the offset
\* R ended at.
C16Step ==
    /\ buffer' = buffer
    /\ last'.op = "setOffset" => currentOffset' = last'.n
    /\ (/\ last.op # "setOffset"
        /\ last.op # "new"
        /\ last.ok
        /\ last'.op = "setOffset"
        /\ last'.n = last.before) =>
          LET again == Reread(last, buffer', currentOffset')
          IN /\ again.ok
             /\ again.val = last.val
             /\ again.off = currentOffset

C16_BacktrackRereads == [][C16Step]_vars

\* the cursor has been set back from 4 to 2, an offset setOffset is given
\* only as the start of the call before it, and a two-byte read from there
\* ends at 4 again
C16_Witness ==
    /\ last.op = "setOffset"
    /\ Len(buffer) = 5
    /\ last.n = 2
    /\ last.before = 4
    /\ currentOffset = 2
    /\ readU16(buffer, currentOffset).ok
    /\ readU16(buffer, currentOffset).off = 4

\* A loop counter that changes inside its loop goes up by one and stays
\* within the count it is compared with.
C17Step ==
    /\ (loop.pc \in {"for", "calls"} /\ loop'.i # loop.i) =>
          /\ loop'.i = loop.i + 1
          /\ loop'.i <= loop.length
    /\ (loop.pc = "calls" /\ loop'.j # loop.j) =>
          /\ loop'.j = loop.j + 1
          /\ loop'.j <= loop.responseSize

\* C17: every count-prefixed decode (readBytesWithLength, readTuple,
\* readAddressArray, readAddressValueTuple, readMultiBytesAddressMap,
\* readTransactionInputs, readTransactionOutputs) that has started finishes,
\* by returning or by an exception, whatever count it has read; and no loop
\* counter wraps around below the count it is compared with.
C17_CountedLoopsFinish ==
    /\ LoopRunning ~> LoopFinished
    /\ [][C17Step]_vars

\* readAddressArray has returned after LongCount iterations, more than a
\* one-byte counter counts
C17_Witness ==
    /\ loop.op = "readAddressArray"
    /\ loop.pc = "returned"
    /\ loop.length = LongCount
    /\ loop.i = LongCount
    /\ LongCount > 255
    /\ currentOffset = Len(buffer)

\* The bytes the last read started at, as many as it is wide
BytesRead(width) == Slice(buffer, last.before, width)

\* The value of four bytes, the first one least / most significant
LittleEndian4(b) == b[1] + 256 * (b[2] + 256 * (b[3] + 256 * b[4]))
BigEndian4(b) == b[4] + 256 * (b[3] + 256 * (b[2] + 256 * b[1]))

\* C18: readU16 and readU32 (with no argument, as readBytesWithLength calls
\* it, or with true) take the first byte as the least significant;
\* readSelector takes the first byte as the most significant, as
\* readU32(false) does; readU128, readI128, readU256 and readI256 take the
\* bytes in buffer order as the digits of the value, most significant first.
C18_ByteOrder ==
    last.ok =>
        /\ last.op = "readU16" => last.val = BytesRead(2)[1] + 256 * BytesRead(2)[2]
        /\ (last.op = "readU32" /\ last.flag) => last.val = LittleEndian4(BytesRead(4))
        /\ (last.op = "readU32" /\ ~last.flag) => last.val = BigEndian4(BytesRead(4))
        /\ last.op = "readBytesWithLength" => Len(last.val) = LittleEndian4(BytesRead(4))
        /\ last.op = "readSelector" =>
              /\ last.val = BigEndian4(BytesRead(4))
              /\ last.val = readU32(buffer, last.before, FALSE).val
        /\ last.op \in {"readU128", "readI128"} =>
              /\ Len(last.val) = 16
              /\ \A d \in 1..16 : last.val[d] = buffer[last.before + d]
        /\ last.op \in {"readU256", "readI256"} =>
              /\ Len(last.val) = 32
              /\ \A d \in 1..32 : last.val[d] = buffer[last.before + d]

\* readSelector over 1, 0, 0, 0 returns 2^24 where readU32() returns 1
C18_Witness ==
    /\ last.op = "readSelector"
    /\ last.ok
    /\ last.val = 16777216
    /\ readU32(buffer, last.before, TRUE).val = 1

\* readU256 over bytes that differ: its first digit is the first byte read
C18_WitnessWide ==
    /\ last.op = "readU256"
    /\ last.ok
    /\ last.val[1] = buffer[last.before + 1]
    /\ last.val[1] # last.val[32]

\* The reads that call verifyEnd themselves before they touch the buffer
VerifiedReads ==
    {"readU8", "readU16", "readU32", "readU64", "readI64", "readU128", "readI128",
     "readU256", "readI256"}

\* C19: verifyEnd raises exactly when the offset the read starts from is
\* greater than the buffer length, whatever size it is given: it passes for
\* every offset up to the length, also when the read would end beyond it
\* (readU8 at the very end passes verifyEnd and moves the cursor before the
\* DataView refuses the byte), and once the offset is beyond the length every
\* read that calls verifyEnd fails where it stands.
C19_VerifyEndComparesOffset ==
    /\ last.op = "verifyEnd" => (last.ok <=> ~(last.before > Len(buffer)))
    /\ last.op = "verifyEnd" => currentOffset = last.before
    /\ (last.op = "readU8" /\ last.before = Len(buffer)) =>
          (~last.ok /\ currentOffset = last.before + 1)
    /\ (last.op \in VerifiedReads /\ last.before > Len(buffer)) =>
          (~last.ok /\ currentOffset = last.before)

\* verifyEnd has passed at offset 1 of three bytes for a read that would end
\* at 33
C19_Witness ==
    /\ last.op = "verifyEnd"
    /\ last.ok
    /\ Len(buffer) = 3
    /\ last.before = 1
    /\ last.n = 33

\* verifyEnd has raised one byte beyond the end for a read of no bytes
C19_WitnessBeyond ==
    /\ last.op = "verifyEnd"
    /\ ~last.ok
    /\ last.before = Len(buffer) + 1
    /\ last.n = last.before

\* The entry of the encoded batch in which address a occurs last
LastOccurrence(a) ==
    CHOOSE i \in 1..Len(wire.addrs) :
        /\ Addr(wire.addrs[i]) = a
        /\ \A later \in (i + 1)..Len(wire.addrs) : Addr(wire.addrs[later]) # a

\* The blobs entry i of the encoded batch carries
BlobsOf(i) == [j \in 1..wire.rs[i] |-> Blob(i, wire.blen)]

\* C20: readMultiBytesAddressMap does not reject an address that occurs
\* again: a complete batch within the caps decodes, the map has one entry
\* for each address that occurs, and the entry holds exactly the blobs of the
\* last occurrence of its address, so a batch with a repeated address gives
\* fewer entries than its count and loses the blobs of the earlier one.
C20_RepeatedAddressOverwrites ==
    (/\ last.op = "readMultiBytesAddressMap"
     /\ wire.kind = "batch"
     /\ wire.cut = 0
     /\ last.before = 0
     /\ Len(wire.addrs) <= MaxContracts
     /\ \A i \in 1..Len(wire.rs) : wire.rs[i] <= MaxCalls) =>
        /\ last.ok
        /\ currentOffset = Len(buffer)
        /\ DOMAIN last.val = {Addr(wire.addrs[i]) : i \in 1..Len(wire.addrs)}
        /\ \A a \in DOMAIN last.val : last.val[a] = BlobsOf(LastOccurrence(a))
        /\ (\E i, k \in 1..Len(wire.addrs) : i # k /\ wire.addrs[i] = wire.addrs[k]) =>
              Cardinality(DOMAIN last.val) < Len(wire.addrs)

\* the batch (address 1: two blobs of byte 1; address 1 again: one blob of
\* byte 2) was decoded to the single entry address 1 -> one blob of byte 2
C20_Witness ==
    /\ last.op = "readMultiBytesAddressMap"
    /\ wire.kind = "batch" /\ wire.addrs = <<1, 1>> /\ wire.rs = <<2, 1>> /\ wire.blen = 1
    /\ last.before = 0
    /\ last.ok
    /\ DOMAIN last.val = {Addr(1)}
    /\ last.val[Addr(1)] = <<(<<2>>)>>

====
